---------------------------- MODULE Spec2Model ----------------------------
(***************************************************************************)
(* A model of the church-site backend (src/app.py, src/seed_database.py):  *)
(* Flask request handlers over MongoDB collections, bcrypt password        *)
(* hashing and JWT-gated administration routes.                            *)
(*                                                                         *)
(* A step of the model is one call to the document store (each pymongo     *)
(* call is atomic on a single document) together with the handler's local  *)
(* computation around it.  A handler that makes one call is one action; a  *)
(* handler that makes several calls (register_admin, subscribe_newsletter, *)
(* get_sermon, get_admin_stats) is one action per call, run by a worker    *)
(* thread, so that concurrent requests interleave between the calls as     *)
(* they do in a threaded WSGI server.                                      *)
(***************************************************************************)
EXTENDS Integers, Sequences, FiniteSets, TLC

(* ------------------------------ bounds -------------------------------- *)
\* Requests served in one behaviour of SpecAuth, SpecGate, SpecToken, SpecEvents,
\* SpecConcurrent, SpecErrors, SpecLookup, SpecList, SpecMessages, SpecOutage,
\* SpecSermons, SpecSettings, SpecUpdate, SpecSubscribe, SpecDelete and SpecLapsed.
MaxAuthRequests == 3
MaxGateRequests == 3
MaxTokenRequests == 3
MaxEventRequests == 4
MaxLookupRequests == 3
MaxListRequests == 4
MaxSettingsRequests == 4
MaxUpdateRequests == 3
MaxMessageRequests == 4
MaxOutageRequests == 3
MaxConcurrentRequests == 3
MaxErrorRequests == 3
MaxSermonRequests == 4
MaxDeleteRequests == 4
MaxLapsedRequests == 3
MaxSubscribeRequests == 4
\* Clock values 0..MaxTime (days).
MaxTime == 9

(* --------------------------- program constants ------------------------ *)
\* app.config['JWT_ACCESS_TOKEN_EXPIRES'] = timedelta(days=7)
JWT_ACCESS_TOKEN_EXPIRES == 7
\* seed_database.py: 'views': 145 of the first sample sermon
SeedViews == 145

JWT_SECRET_KEY == "default-jwt-secret-change-me"
None == "None"

Workers == {"w1", "w2"}

VARIABLES
    db,          \* the MongoDB collections: collection name -> sequence of documents (natural order)
    unique_idx,  \* TRUE iff seed_database.py has created the unique indexes
    mongo_db,    \* mongo.db: "db", or None when the URI names no database
    server_up,   \* whether the MongoDB server answers
    next_oid,    \* the next ObjectId the driver generates
    now,         \* datetime.utcnow(), in days
    issued,      \* the access tokens login_admin has handed out
    threads,     \* worker -> the multi-call request it is in the middle of
    hist         \* the responses sent so far, in order

vars == <<db, unique_idx, mongo_db, server_up, next_oid, now, issued, threads, hist>>

(* ------------------------------ helpers ------------------------------- *)
Has(d, f) == f \in DOMAIN d

\* dict.get(key, default)
Get(d, f, default) == IF Has(d, f) THEN d[f] ELSE default

\* {'$set': upd} applied to a document: named fields replaced or added, the rest kept
SetFields(doc, upd) ==
    [f \in DOMAIN doc \cup DOMAIN upd |-> IF f \in DOMAIN upd THEN upd[f] ELSE doc[f]]

\* Indexes of the documents of a collection whose field equals a value
Matches(coll, f, v) == {i \in 1..Len(db[coll]) : Has(db[coll][i], f) /\ db[coll][i][f] = v}

Min(S) == CHOOSE x \in S : \A y \in S : x <= y

\* find_one({f: v}): index of the first match in natural order, 0 for no match
find_one(coll, f, v) == IF Matches(coll, f, v) = {} THEN 0 ELSE Min(Matches(coll, f, v))

RemoveAt(s, i) == [j \in 1..(Len(s) - 1) |-> IF j < i THEN s[j] ELSE s[j + 1]]

\* str(ObjectId): the 24-hex-digit rendering of an identifier
StrOid(n) == "oid" \o ToString(n)

\* ObjectId(s): the identifier a string denotes, 0 when bson raises InvalidId
ParseOid(s) ==
    IF \E n \in 1..(next_oid + 1) : StrOid(n) = s
    THEN CHOOSE n \in 1..(next_oid + 1) : StrOid(n) = s
    ELSE 0

\* datetime.isoformat()
IsoFormat(t) == "day-" \o ToString(t)

InFlight == Cardinality({w \in Workers : threads[w].pc # "idle"})
Idle == [pc |-> "idle"]
\* Fewer than n requests have been admitted so far
Budget(n) == Len(hist) + InFlight < n

Reply(r) == hist' = Append(hist, r)

\* jsonify(body), status: a response, with the route, who was let in, the request,
\* and the number of store calls the handler had issued
Resp(op, req, status, calls, body) ==
    [op |-> op, auth |-> "public", req |-> req, status |-> status, calls |-> calls,
     body |-> body]

\* The outcome of a one-call handler: its response and the store it leaves
Out(resp, newdb, newoid) == [resp |-> resp, db |-> newdb, oid |-> newoid]
Keep(resp) == Out(resp, db, next_oid)

\* One request served in one step
Serve(out) ==
    /\ db' = out.db
    /\ next_oid' = out.oid
    /\ Reply(out.resp)
    /\ UNCHANGED <<unique_idx, mongo_db, server_up, now, issued, threads>>

Unavailable(op, req) == Resp(op, req, 503, 0, [message |-> "Database not available"])
\* except Exception as e: 'Error: ' + str(e), 500
Raised(op, req, calls, e) == Resp(op, req, 500, calls, [message |-> "Error: " \o e])
\* A store call while the server does not answer raises
Timeout(op, req, calls) == Raised(op, req, calls, "ServerSelectionTimeoutError")

\* get_db(): the database handle, or None
get_db == IF mongo_db # None THEN mongo_db ELSE None

(* -------------------------- credential service ------------------------ *)
Salts == {"s1", "s2"}

\* Mutant: the password kept as submitted
generate_password_hash_plain(password, salt) == password

\* bcrypt.generate_password_hash(password): a salted one-way hash
generate_password_hash(password, salt) == "$2b$12$" \o salt \o "$H(" \o password \o ")"

\* bcrypt.check_password_hash(pw_hash, password): rehash with the salt stored in pw_hash
check_password_hash(pw_hash, password) ==
    \E s \in Salts \cup {"s0"} : pw_hash = generate_password_hash(password, s)

(* ----------------------------- token service -------------------------- *)
Sign(key, sub, iat, exp) == <<key, sub, iat, exp>>

\* Mutant: the 30 days of config.py's JWT_REFRESH_TOKEN_EXPIRES used for the access token
create_access_token_refresh(identity) ==
    [kind |-> "jwt", sub |-> identity, iat |-> now, exp |-> now + 30,
     sig |-> Sign(JWT_SECRET_KEY, identity, now, now + 30)]

\* create_access_token(identity=...): signed, expiring JWT_ACCESS_TOKEN_EXPIRES after issue
create_access_token(identity) ==
    [kind |-> "jwt", sub |-> identity, iat |-> now,
     exp |-> now + JWT_ACCESS_TOKEN_EXPIRES,
     sig |-> Sign(JWT_SECRET_KEY, identity, now, now + JWT_ACCESS_TOKEN_EXPIRES)]

NoAuthHeader == [kind |-> "none"]
GarbageToken == [kind |-> "garbage"]
\* An issued token whose expiry the holder has pushed back, signature untouched
Extended(t) == [t EXCEPT !.exp = t.exp + JWT_ACCESS_TOKEN_EXPIRES]
\* A token of the same claims signed with a key that is not the server's
Forged(t) == [t EXCEPT !.sig = Sign("not-the-key", t.sub, t.iat, t.exp)]

\* What a client may put in the Authorization header
Presented ==
    {NoAuthHeader, GarbageToken} \cup issued
        \cup {Extended(t) : t \in issued} \cup {Forged(t) : t \in issued}

\* verify_jwt_in_request(): "valid", or why the token is refused
verify_jwt(tok) ==
    IF tok.kind = "none" THEN "missing"
    ELSE IF tok.kind # "jwt" THEN "malformed"
    ELSE IF tok.sig # Sign(JWT_SECRET_KEY, tok.sub, tok.iat, tok.exp) THEN "bad_signature"
    ELSE IF tok.exp <= now THEN "expired"
    ELSE "valid"

\* @jwt_required(): 0 lets the request through to the controller, otherwise the
\* status of the refusal (flask_jwt_extended's default error handlers)
jwt_required(tok) ==
    CASE verify_jwt(tok) = "valid" -> 0
      [] verify_jwt(tok) \in {"missing", "expired"} -> 401
      [] OTHER -> 422

\* What the gate saw: the verdict on the token, the token, and the day
Seen(tok) == [auth |-> verify_jwt(tok), tok |-> tok, at |-> now]

\* The response of a request stopped at the gate: the controller made no call
Refused(op, tok) ==
    SetFields([op |-> op, req |-> <<>>, status |-> jwt_required(tok), calls |-> 0,
               body |-> [msg |-> verify_jwt(tok)]],
              Seen(tok))

\* Mutant: @jwt_required(optional=True), every request reaches the controller
ProtectedOptional(op, tok, out) == [out EXCEPT !.resp = SetFields(@, Seen(tok))]

\* A route under @jwt_required(): the controller's outcome `out` only for a valid token
Protected(op, tok, out) ==
    IF jwt_required(tok) # 0 THEN Keep(Refused(op, tok))
    ELSE [out EXCEPT !.resp = SetFields(@, Seen(tok))]

(* ------------------------------- Init --------------------------------- *)
EmptyDb ==
    [admins |-> <<>>, events |-> <<>>, sermons |-> <<>>, gallery |-> <<>>,
     messages |-> <<>>, subscribers |-> <<>>, settings |-> <<>>]

\* seed_database.py: the administrator it creates
admin_user ==
    [_id |-> 1, username |-> "admin", email |-> "admin@armorofgod.org",
     password |-> generate_password_hash("admin123", "s0"),
     role |-> "superadmin", createdAt |-> 0]

\* seed_database.py: the first sample sermon (the other samples differ in text only)
sample_sermon ==
    [_id |-> 2, title |-> "The Power of Faith", speaker |-> "Pastor Gary Morgan",
     date |-> "January 26, 2025", series |-> "Foundations of Faith",
     description |-> "faith", image |-> "img", videoUrl |-> "v1", audioUrl |-> "",
     views |-> SeedViews, createdAt |-> 0, updatedAt |-> 0]

\* The database after seed_database.py has run: collections cleared and refilled,
\* unique indexes on admins.username, admins.email and subscribers.email
SeededDb == [EmptyDb EXCEPT !.admins = <<admin_user>>, !.sermons = <<sample_sermon>>]

\* The application starts on a fresh database or on a seeded one.
Init ==
    /\ unique_idx \in BOOLEAN
    /\ db = IF unique_idx THEN SeededDb ELSE EmptyDb
    /\ next_oid = IF unique_idx THEN 3 ELSE 1
    /\ mongo_db = "db"
    /\ server_up = TRUE
    /\ now = 0
    /\ issued = {}
    /\ threads = [w \in Workers |-> Idle]
    /\ hist = <<>>

\* A subscriber record whose status is not 'active': the kind of record that the
\* {'status': 'active'} filters of get_subscribers and get_admin_stats leave out
lapsed_subscriber ==
    [email |-> "john@example.com", status |-> "inactive", subscribedAt |-> 0]

\* The application starts on a store that holds a lapsed subscriber.
InitLapsed ==
    /\ unique_idx \in BOOLEAN
    /\ db = [(IF unique_idx THEN SeededDb ELSE EmptyDb) EXCEPT
                !.subscribers = <<SetFields(lapsed_subscriber,
                                            [_id |-> IF unique_idx THEN 3 ELSE 1])>>]
    /\ next_oid = IF unique_idx THEN 4 ELSE 2
    /\ mongo_db = "db"
    /\ server_up = TRUE
    /\ now = 0
    /\ issued = {}
    /\ threads = [w \in Workers |-> Idle]
    /\ hist = <<>>

\* The application starts with or without a database handle (mongo.db is None when
\* MONGO_URI names no database), against a server that answers or does not.
InitOutage ==
    /\ unique_idx \in BOOLEAN
    /\ db = IF unique_idx THEN SeededDb ELSE EmptyDb
    /\ next_oid = IF unique_idx THEN 3 ELSE 1
    /\ mongo_db \in {"db", None}
    /\ server_up \in BOOLEAN
    /\ now = 0
    /\ issued = {}
    /\ threads = [w \in Workers |-> Idle]
    /\ hist = <<>>

\* The MongoDB server stops answering, or answers again.
Outage ==
    /\ server_up' = ~server_up
    /\ UNCHANGED <<db, unique_idx, mongo_db, next_oid, now, issued, threads, hist>>

\* d days pass.
Tick(d) ==
    /\ now + d <= MaxTime
    /\ now' = now + d
    /\ UNCHANGED <<db, unique_idx, mongo_db, server_up, next_oid, issued, threads, hist>>


(* ---------------------------- GET /api/health ------------------------- *)
Unhealthy(calls, e) ==
    Resp("health_check", <<>>, 500, calls,
         [status |-> "unhealthy", database |-> "disconnected", error |-> e,
          timestamp |-> IsoFormat(now)])

\* health_check: MONGO_URI is configured and the PyMongo instance exists; the handle
\* may be None, and db.command('ping') raises when the server does not answer.
\* Every failure is answered 500.
health_check ==
    Serve(IF get_db = None
          THEN Keep(Unhealthy(0, "Database connection is None - check MONGO_URI"))
          ELSE IF ~server_up THEN Keep(Unhealthy(1, "ServerSelectionTimeoutError"))
          ELSE Keep(Resp("health_check", <<>>, 200, 1,
                         [status |-> "healthy", database |-> "connected",
                          timestamp |-> IsoFormat(now)])))

(* ----------------------- POST /api/admin/register --------------------- *)
Usernames == {"admin", "bob"}
Emails == {"admin@armorofgod.org", "bob@example.com"}
Passwords == {"admin123", "hunter2"}

\* The JSON bodies sent to register: complete ones, and one lacking a key
RegisterPayloads ==
    {[username |-> "admin", email |-> "admin@armorofgod.org", password |-> "admin123"],
     [username |-> "bob", email |-> "admin@armorofgod.org", password |-> "admin123"],
     [username |-> "bob", email |-> "bob@example.com", password |-> "hunter2"],
     [username |-> "bob", password |-> "hunter2"]}

\* A unique index refuses the insert (DuplicateKeyError) when the value is taken
DuplicateKey(coll, doc, fields) ==
    unique_idx /\ \E f \in fields : Has(doc, f) /\ Matches(coll, f, doc[f]) # {}

\* insert_one(doc): the collection with doc appended under a fresh _id
insert_one(coll, doc) ==
    [db EXCEPT ![coll] = Append(@, SetFields(doc, [_id |-> next_oid]))]

\* register_admin up to and including find_one: the duplicate-username check,
\* then the hashing and the building of admin_data
register_admin_find(w, data, salt) ==
    /\ threads[w] = Idle
    /\ UNCHANGED <<db, unique_idx, mongo_db, server_up, next_oid, now, issued>>
    /\ IF get_db = None THEN
          Reply(Unavailable("register_admin", data)) /\ UNCHANGED threads
       ELSE IF ~Has(data, "username") THEN
          Reply(Raised("register_admin", data, 0, "'username'")) /\ UNCHANGED threads
       ELSE IF ~server_up THEN
          Reply(Timeout("register_admin", data, 1)) /\ UNCHANGED threads
       ELSE IF find_one("admins", "username", data.username) # 0 THEN
          /\ Reply(Resp("register_admin", data, 400, 1, [message |-> "Admin already exists"]))
          /\ UNCHANGED threads
       ELSE IF ~Has(data, "password") THEN
          Reply(Raised("register_admin", data, 1, "'password'")) /\ UNCHANGED threads
       ELSE IF ~Has(data, "email") THEN
          Reply(Raised("register_admin", data, 1, "'email'")) /\ UNCHANGED threads
       ELSE
          /\ threads' = [threads EXCEPT ![w] =
                 [pc |-> "register_insert", req |-> data,
                  doc |-> [username |-> data.username, email |-> data.email,
                           password |-> generate_password_hash(data.password, salt),
                           createdAt |-> now]]]
          /\ UNCHANGED hist

\* register_admin from insert_one to the response
register_admin_insert(w) ==
    /\ threads[w].pc = "register_insert"
    /\ threads' = [threads EXCEPT ![w] = Idle]
    /\ UNCHANGED <<unique_idx, mongo_db, server_up, now, issued>>
    /\ LET t == threads[w] IN
       IF ~server_up THEN
          Reply(Timeout("register_admin", t.req, 2)) /\ UNCHANGED <<db, next_oid>>
       ELSE IF DuplicateKey("admins", t.doc, {"username", "email"}) THEN
          /\ Reply(Raised("register_admin", t.req, 2, "E11000 duplicate key error"))
          /\ UNCHANGED <<db, next_oid>>
       ELSE
          /\ db' = insert_one("admins", t.doc)
          /\ next_oid' = next_oid + 1
          /\ Reply(Resp("register_admin", t.req, 201, 2,
                        [message |-> "Admin created successfully",
                         adminId |-> StrOid(next_oid)]))

(* ------------------------- POST /api/admin/login ---------------------- *)
LoginPayloads == [username : Usernames, password : Passwords] \cup {[username |-> "admin"]}

\* login_admin: one find_one, the password check, the token
login_admin(data) ==
    /\ UNCHANGED <<db, unique_idx, mongo_db, server_up, next_oid, now, threads>>
    /\ IF get_db = None THEN
          Reply(Unavailable("login_admin", data)) /\ UNCHANGED issued
       ELSE IF ~Has(data, "username") THEN
          Reply(Raised("login_admin", data, 0, "'username'")) /\ UNCHANGED issued
       ELSE IF ~server_up THEN
          Reply(Timeout("login_admin", data, 1)) /\ UNCHANGED issued
       ELSE LET i == find_one("admins", "username", data.username)
                admin == db.admins[i]
            IN
            IF i = 0 THEN
               /\ Reply(Resp("login_admin", data, 401, 1, [message |-> "Invalid credentials"]))
               /\ UNCHANGED issued
            ELSE IF ~Has(data, "password") THEN
               Reply(Raised("login_admin", data, 1, "'password'")) /\ UNCHANGED issued
            ELSE IF ~check_password_hash(admin.password, data.password) THEN
               /\ Reply(Resp("login_admin", data, 401, 1, [message |-> "Invalid credentials"]))
               /\ UNCHANGED issued
            ELSE
               /\ issued' = issued \cup {create_access_token(StrOid(admin._id))}
               /\ Reply(Resp("login_admin", data, 200, 1,
                             [token |-> create_access_token(StrOid(admin._id)),
                              admin |-> [id |-> StrOid(admin._id),
                                         username |-> admin.username,
                                         email |-> admin.email]]))

(* ------------------------- documents and queries ---------------------- *)
Without(d, f) == [g \in DOMAIN d \ {f} |-> d[g]]

\* The first key of `fields` that data[...] would raise KeyError on, "" if none
RECURSIVE Missing(_, _)
Missing(data, fields) ==
    IF fields = <<>> THEN ""
    ELSE IF ~Has(data, Head(fields)) THEN Head(fields)
    ELSE Missing(data, Tail(fields))

KeyError(f) == "'" \o f \o "'"

DateFields == {"createdAt", "updatedAt", "subscribedAt", "uploadedAt"}

\* serialize_doc: ObjectId to str, datetime to isoformat, the rest as it is
serialize_doc(doc) ==
    [f \in DOMAIN doc |->
        IF f = "_id" THEN StrOid(doc[f])
        ELSE IF f \in DateFields THEN IsoFormat(doc[f])
        ELSE doc[f]]

\* The strings used as 'date', in ascending (code point) order
StringOrder ==
    <<"2024-10-31", "2025-02-02", "2025-02-07",
      "December 29, 2024", "January 19, 2025", "January 26, 2025">>

\* The place of a field's value in the order sort() uses
Rank(doc, f) ==
    IF f \in DateFields THEN doc[f]
    ELSE CHOOSE k \in 1..Len(StringOrder) : StringOrder[k] = doc[f]

\* cursor.sort(f, -1): descending by f, documents of equal f in natural order
RECURSIVE SortDesc(_, _)
SortDesc(docs, f) ==
    IF docs = <<>> THEN <<>>
    ELSE LET top == CHOOSE i \in 1..Len(docs) :
                        \A j \in 1..Len(docs) :
                            \/ Rank(docs[j], f) < Rank(docs[i], f)
                            \/ Rank(docs[j], f) = Rank(docs[i], f) /\ i <= j
         IN <<docs[top]>> \o SortDesc(RemoveAt(docs, top), f)

\* The id strings a client may put in a URL: every identifier handed out so far,
\* the next one (well formed, matching nothing), and a string that is no ObjectId
IdParams == {StrOid(n) : n \in 1..next_oid} \cup {"not-an-object-id"}

\* update_one({'_id': id}, {'$set': upd}) on a collection
update_one(coll, i, upd) == [db EXCEPT ![coll][i] = SetFields(@, upd)]
\* delete_one({'_id': id})
delete_one(coll, i) == [db EXCEPT ![coll] = RemoveAt(@, i)]

\* Mutant: deleted_count is not looked at, every delete_one is reported as a success
delete_by_id_quiet(op, coll, what, id) ==
    IF get_db = None THEN Keep(Unavailable(op, id))
    ELSE IF ParseOid(id) = 0 THEN Keep(Raised(op, id, 0, "InvalidId"))
    ELSE IF ~server_up THEN Keep(Timeout(op, id, 1))
    ELSE IF find_one(coll, "_id", ParseOid(id)) = 0
         THEN Keep(Resp(op, id, 200, 1, [message |-> what \o " deleted successfully"]))
    ELSE Out(Resp(op, id, 200, 1, [message |-> what \o " deleted successfully"]),
             delete_one(coll, find_one(coll, "_id", ParseOid(id))), next_oid)

\* DELETE /api/<collection>/<id>, the same in all four controllers
delete_by_id(op, coll, what, id) ==
    IF get_db = None THEN Keep(Unavailable(op, id))
    ELSE IF ParseOid(id) = 0 THEN Keep(Raised(op, id, 0, "InvalidId"))
    ELSE IF ~server_up THEN Keep(Timeout(op, id, 1))
    ELSE IF find_one(coll, "_id", ParseOid(id)) = 0
         THEN Keep(Resp(op, id, 404, 1, [message |-> what \o " not found"]))
    ELSE Out(Resp(op, id, 200, 1, [message |-> what \o " deleted successfully"]),
             delete_one(coll, find_one(coll, "_id", ParseOid(id))), next_oid)

(* ------------------------------- events ------------------------------- *)
EventRequired == <<"title", "date", "time", "location", "description">>

FullEvent ==
    [title |-> "Youth Night", date |-> "2025-02-07", time |-> "7:00 PM",
     location |-> "Youth Center", description |-> "Worship for young adults"]

\* JSON bodies for POST and PUT /api/events: complete, with the optional keys,
\* and lacking each required key in turn
EventPayloads ==
    {FullEvent,
     SetFields(FullEvent, [title |-> "Harvest Festival", date |-> "2024-10-31",
                            image |-> "harvest.jpg", category |-> "past"])}
        \cup {Without(FullEvent, EventRequired[k]) : k \in 1..Len(EventRequired)}

\* Mutant: a partial merge, only the keys the payload carries are set
event_fields_partial(data) ==
    [f \in DOMAIN data \cap {"title", "date", "time", "location", "description",
                             "image", "category"} |-> data[f]]

event_fields(data) ==
    [title |-> data.title, date |-> data.date, time |-> data.time,
     location |-> data.location, description |-> data.description,
     image |-> Get(data, "image", ""), category |-> Get(data, "category", "upcoming")]

\* request.args.get('category'): absent, empty, or a category name
CategoryParams == {None, "", "upcoming", "past", "special"}

\* Mutant: the query is always {}, the parameter is ignored
events_find_all(category) == db.events

\* find(query) with query = {'category': category} if category else {}: the empty
\* string is falsy, so '?category=' selects as an absent parameter does
events_find(category) ==
    IF category = None \/ category = "" THEN db.events
    ELSE SelectSeq(db.events, LAMBDA d : Has(d, "category") /\ d.category = category)

\* get_events (public): the selected events, newest date first
get_events(category) ==
    Serve(IF get_db = None THEN Keep(Unavailable("get_events", category))
          ELSE IF ~server_up THEN Keep(Timeout("get_events", category, 1))
          ELSE Keep(Resp("get_events", category, 200, 1,
                         [k \in 1..Len(events_find(category)) |->
                             serialize_doc(SortDesc(events_find(category), "date")[k])])))

\* get_event (public): find_one by ObjectId(event_id)
get_event(id) ==
    Serve(IF get_db = None THEN Keep(Unavailable("get_event", id))
          ELSE IF ParseOid(id) = 0 THEN Keep(Raised("get_event", id, 0, "InvalidId"))
          ELSE IF ~server_up THEN Keep(Timeout("get_event", id, 1))
          ELSE IF find_one("events", "_id", ParseOid(id)) = 0
               THEN Keep(Resp("get_event", id, 404, 1, [message |-> "Event not found"]))
          ELSE Keep(Resp("get_event", id, 200, 1,
                         serialize_doc(db.events[find_one("events", "_id", ParseOid(id))]))))

\* create_event: build event_data (KeyError on a missing key), insert_one
create_event_body(data) ==
    IF get_db = None THEN Keep(Unavailable("create_event", data))
    ELSE IF Missing(data, EventRequired) # ""
         THEN Keep(Raised("create_event", data, 0, KeyError(Missing(data, EventRequired))))
    ELSE IF ~server_up THEN Keep(Timeout("create_event", data, 1))
    ELSE Out(Resp("create_event", data, 201, 1,
                  [message |-> "Event created successfully", eventId |-> StrOid(next_oid)]),
             insert_one("events", SetFields(event_fields(data), [createdAt |-> now])),
             next_oid + 1)

create_event(tok, data) == Serve(Protected("create_event", tok, create_event_body(data)))

\* Mutant: update_one is called with upsert=True, so an id that matches nothing gets
\* a document before matched_count == 0 is answered 404
update_event_body_upsert(id, data) ==
    LET req == [id |-> id, data |-> data] IN
    IF get_db = None THEN Keep(Unavailable("update_event", req))
    ELSE IF Missing(data, EventRequired) # ""
         THEN Keep(Raised("update_event", req, 0, KeyError(Missing(data, EventRequired))))
    ELSE IF ParseOid(id) = 0 THEN Keep(Raised("update_event", req, 0, "InvalidId"))
    ELSE IF ~server_up THEN Keep(Timeout("update_event", req, 1))
    ELSE IF find_one("events", "_id", ParseOid(id)) = 0
         THEN Out(Resp("update_event", req, 404, 1, [message |-> "Event not found"]),
                  insert_one("events", SetFields(event_fields(data), [updatedAt |-> now])),
                  next_oid + 1)
    ELSE Out(Resp("update_event", req, 200, 1, [message |-> "Event updated successfully"]),
             update_one("events", find_one("events", "_id", ParseOid(id)),
                        SetFields(event_fields(data), [updatedAt |-> now])),
             next_oid)

\* update_event: build update_data, update_one with $set, 404 when nothing matched
update_event_body(id, data) ==
    LET req == [id |-> id, data |-> data] IN
    IF get_db = None THEN Keep(Unavailable("update_event", req))
    ELSE IF Missing(data, EventRequired) # ""
         THEN Keep(Raised("update_event", req, 0, KeyError(Missing(data, EventRequired))))
    ELSE IF ParseOid(id) = 0 THEN Keep(Raised("update_event", req, 0, "InvalidId"))
    ELSE IF ~server_up THEN Keep(Timeout("update_event", req, 1))
    ELSE IF find_one("events", "_id", ParseOid(id)) = 0
         THEN Keep(Resp("update_event", req, 404, 1, [message |-> "Event not found"]))
    ELSE Out(Resp("update_event", req, 200, 1, [message |-> "Event updated successfully"]),
             update_one("events", find_one("events", "_id", ParseOid(id)),
                        SetFields(event_fields(data), [updatedAt |-> now])),
             next_oid)

update_event(tok, id, data) ==
    Serve(Protected("update_event", tok, update_event_body(id, data)))

delete_event(tok, id) ==
    Serve(Protected("delete_event", tok, delete_by_id("delete_event", "events", "Event", id)))

(* ------------------------------- sermons ------------------------------ *)
SermonRequired == <<"title", "speaker", "date", "description">>

FullSermon ==
    [title |-> "Walking in Love", speaker |-> "Pastor Gary Morgan",
     date |-> "January 19, 2025", description |-> "Love in action"]

SermonPayloads ==
    {FullSermon,
     SetFields(FullSermon, [date |-> "December 29, 2024", series |-> "Advent",
                             videoUrl |-> "https://youtube.com/watch?v=example2"]),
     Without(FullSermon, "speaker")}

\* Mutant: the update document also carries 'views': 0, as sermon_data does
sermon_fields_reset(data) ==
    [title |-> data.title, speaker |-> data.speaker, date |-> data.date,
     series |-> Get(data, "series", ""), description |-> data.description,
     thumbnail |-> Get(data, "thumbnail", ""), videoUrl |-> Get(data, "videoUrl", ""),
     audioUrl |-> Get(data, "audioUrl", ""), views |-> 0]

sermon_fields(data) ==
    [title |-> data.title, speaker |-> data.speaker, date |-> data.date,
     series |-> Get(data, "series", ""), description |-> data.description,
     thumbnail |-> Get(data, "thumbnail", ""), videoUrl |-> Get(data, "videoUrl", ""),
     audioUrl |-> Get(data, "audioUrl", "")]

\* get_sermons: every sermon, newest date first
get_sermons ==
    Serve(IF get_db = None THEN Keep(Unavailable("get_sermons", <<>>))
          ELSE IF ~server_up THEN Keep(Timeout("get_sermons", <<>>, 1))
          ELSE Keep(Resp("get_sermons", <<>>, 200, 1,
                         [k \in 1..Len(db.sermons) |->
                             serialize_doc(SortDesc(db.sermons, "date")[k])])))

\* create_sermon: views start at 0
create_sermon_body(data) ==
    IF get_db = None THEN Keep(Unavailable("create_sermon", data))
    ELSE IF Missing(data, SermonRequired) # ""
         THEN Keep(Raised("create_sermon", data, 0, KeyError(Missing(data, SermonRequired))))
    ELSE IF ~server_up THEN Keep(Timeout("create_sermon", data, 1))
    ELSE Out(Resp("create_sermon", data, 201, 1,
                  [message |-> "Sermon created successfully", sermonId |-> StrOid(next_oid)]),
             insert_one("sermons",
                        SetFields(sermon_fields(data), [views |-> 0, createdAt |-> now])),
             next_oid + 1)

create_sermon(tok, data) == Serve(Protected("create_sermon", tok, create_sermon_body(data)))

\* update_sermon: $set of the payload's fields and updatedAt; views is not among them
update_sermon_body(id, data) ==
    LET req == [id |-> id, data |-> data] IN
    IF get_db = None THEN Keep(Unavailable("update_sermon", req))
    ELSE IF Missing(data, SermonRequired) # ""
         THEN Keep(Raised("update_sermon", req, 0, KeyError(Missing(data, SermonRequired))))
    ELSE IF ParseOid(id) = 0 THEN Keep(Raised("update_sermon", req, 0, "InvalidId"))
    ELSE IF ~server_up THEN Keep(Timeout("update_sermon", req, 1))
    ELSE IF find_one("sermons", "_id", ParseOid(id)) = 0
         THEN Keep(Resp("update_sermon", req, 404, 1, [message |-> "Sermon not found"]))
    ELSE Out(Resp("update_sermon", req, 200, 1, [message |-> "Sermon updated successfully"]),
             update_one("sermons", find_one("sermons", "_id", ParseOid(id)),
                        SetFields(sermon_fields(data), [updatedAt |-> now])),
             next_oid)

update_sermon(tok, id, data) ==
    Serve(Protected("update_sermon", tok, update_sermon_body(id, data)))

delete_sermon(tok, id) ==
    Serve(Protected("delete_sermon", tok, delete_by_id("delete_sermon", "sermons", "Sermon", id)))

\* get_sermon up to and including find_one: the document as read
get_sermon_find(w, id) ==
    /\ threads[w] = Idle
    /\ UNCHANGED <<db, unique_idx, mongo_db, server_up, next_oid, now, issued>>
    /\ IF get_db = None THEN
          Reply(Unavailable("get_sermon", id)) /\ UNCHANGED threads
       ELSE IF ParseOid(id) = 0 THEN
          Reply(Raised("get_sermon", id, 0, "InvalidId")) /\ UNCHANGED threads
       ELSE IF ~server_up THEN
          Reply(Timeout("get_sermon", id, 1)) /\ UNCHANGED threads
       ELSE IF find_one("sermons", "_id", ParseOid(id)) = 0 THEN
          /\ Reply(Resp("get_sermon", id, 404, 1, [message |-> "Sermon not found"]))
          /\ UNCHANGED threads
       ELSE
          /\ threads' = [threads EXCEPT ![w] =
                 [pc |-> "sermon_inc", req |-> id, start |-> Len(hist),
                  sermon |-> db.sermons[find_one("sermons", "_id", ParseOid(id))]]]
          /\ UNCHANGED hist

\* Mutant: {'$set': {'views': 1}} in place of $inc
inc_views_set(n) ==
    IF find_one("sermons", "_id", n) = 0 THEN db
    ELSE [db EXCEPT !.sermons[find_one("sermons", "_id", n)] = SetFields(@, [views |-> 1])]

\* update_one({'_id': id}, {'$inc': {'views': 1}}): the store adds 1 to the field as
\* it stands now; a document that is gone matches nothing
inc_views(n) ==
    IF find_one("sermons", "_id", n) = 0 THEN db
    ELSE [db EXCEPT !.sermons[find_one("sermons", "_id", n)] =
              SetFields(@, [views |-> Get(@, "views", 0) + 1])]

\* get_sermon from the $inc to the response: the views returned are computed from
\* the document read by find_one
get_sermon_inc(w) ==
    /\ threads[w].pc = "sermon_inc"
    /\ threads' = [threads EXCEPT ![w] = Idle]
    /\ UNCHANGED <<unique_idx, mongo_db, server_up, next_oid, now, issued>>
    /\ LET t == threads[w] IN
       IF ~server_up THEN
          Reply(Timeout("get_sermon", t.req, 2)) /\ UNCHANGED db
       ELSE
          /\ db' = inc_views(t.sermon._id)
          /\ Reply(SetFields(
                   Resp("get_sermon", t.req, 200, 2,
                        serialize_doc(SetFields(t.sermon,
                            [views |-> Get(t.sermon, "views", 0) + 1]))),
                   [start |-> t.start]))

(* ------------------------------- gallery ------------------------------ *)
GalleryRequired == <<"title", "category", "imageUrl">>

FullImage == [title |-> "Sunday Worship", category |-> "worship", imageUrl |-> "worship.jpg"]
GalleryPayloads == {FullImage, Without(FullImage, "imageUrl")}

create_gallery_image_body(data) ==
    IF get_db = None THEN Keep(Unavailable("create_gallery_image", data))
    ELSE IF Missing(data, GalleryRequired) # ""
         THEN Keep(Raised("create_gallery_image", data, 0,
                          KeyError(Missing(data, GalleryRequired))))
    ELSE IF ~server_up THEN Keep(Timeout("create_gallery_image", data, 1))
    ELSE Out(Resp("create_gallery_image", data, 201, 1,
                  [message |-> "Image added successfully", imageId |-> StrOid(next_oid)]),
             insert_one("gallery",
                        [title |-> data.title, category |-> data.category,
                         imageUrl |-> data.imageUrl,
                         description |-> Get(data, "description", ""), createdAt |-> now]),
             next_oid + 1)

create_gallery_image(tok, data) ==
    Serve(Protected("create_gallery_image", tok, create_gallery_image_body(data)))

delete_gallery_image(tok, id) ==
    Serve(Protected("delete_gallery_image", tok,
                    delete_by_id("delete_gallery_image", "gallery", "Image", id)))

(* ------------------------------- messages ----------------------------- *)
MessageRequired == <<"name", "email", "message">>

FullMessage == [name |-> "John Smith", email |-> "john@example.com", message |-> "Hello"]
MessagePayloads ==
    {FullMessage, SetFields(FullMessage, [subject |-> "Choir", status |-> "read"]),
     Without(FullMessage, "message")}

\* Mutant: the status is taken from the payload when it carries one
message_data_payload(data) ==
    [name |-> data.name, email |-> data.email, subject |-> Get(data, "subject", ""),
     message |-> data.message, status |-> Get(data, "status", "new"), createdAt |-> now]

\* message_data: the payload's name, email, subject and message, status 'new'
message_data(data) ==
    [name |-> data.name, email |-> data.email, subject |-> Get(data, "subject", ""),
     message |-> data.message, status |-> "new", createdAt |-> now]

\* submit_message (public): the stored status is always 'new'
submit_message(data) ==
    Serve(IF get_db = None THEN Keep(Unavailable("submit_message", data))
          ELSE IF Missing(data, MessageRequired) # ""
               THEN Keep(Raised("submit_message", data, 0,
                                KeyError(Missing(data, MessageRequired))))
          ELSE IF ~server_up THEN Keep(Timeout("submit_message", data, 1))
          ELSE Out(Resp("submit_message", data, 201, 1,
                        [message |-> "Message sent successfully",
                         messageId |-> StrOid(next_oid)]),
                   insert_one("messages", message_data(data)),
                   next_oid + 1))

get_messages_body ==
    IF get_db = None THEN Keep(Unavailable("get_messages", <<>>))
    ELSE IF ~server_up THEN Keep(Timeout("get_messages", <<>>, 1))
    ELSE Keep(Resp("get_messages", <<>>, 200, 1,
                   [k \in 1..Len(db.messages) |->
                       serialize_doc(SortDesc(db.messages, "createdAt")[k])]))

get_messages(tok) == Serve(Protected("get_messages", tok, get_messages_body))

StatusPayloads == {[status |-> "read"], [status |-> "new"], [note |-> "no status"]}

\* update_message_status: ObjectId(message_id), then data['status'], then update_one
update_message_status_body(id, data) ==
    LET req == [id |-> id, data |-> data] IN
    IF get_db = None THEN Keep(Unavailable("update_message_status", req))
    ELSE IF ParseOid(id) = 0 THEN Keep(Raised("update_message_status", req, 0, "InvalidId"))
    ELSE IF ~Has(data, "status")
         THEN Keep(Raised("update_message_status", req, 0, KeyError("status")))
    ELSE IF ~server_up THEN Keep(Timeout("update_message_status", req, 1))
    ELSE IF find_one("messages", "_id", ParseOid(id)) = 0
         THEN Keep(Resp("update_message_status", req, 404, 1,
                        [message |-> "Message not found"]))
    ELSE Out(Resp("update_message_status", req, 200, 1,
                  [message |-> "Status updated successfully"]),
             update_one("messages", find_one("messages", "_id", ParseOid(id)),
                        [status |-> data.status, updatedAt |-> now]),
             next_oid)

update_message_status(tok, id, data) ==
    Serve(Protected("update_message_status", tok, update_message_status_body(id, data)))

delete_message(tok, id) ==
    Serve(Protected("delete_message", tok,
                    delete_by_id("delete_message", "messages", "Message", id)))

(* ------------------------------ newsletter ---------------------------- *)
SubscribePayloads ==
    {[email |-> "john@example.com"], [email |-> "sarah@example.com"], [name |-> "no email"]}

\* subscribe_newsletter up to and including find_one: any record of the email,
\* whatever its status, answers 'Already subscribed'
subscribe_newsletter_find(w, data) ==
    /\ threads[w] = Idle
    /\ UNCHANGED <<db, unique_idx, mongo_db, server_up, next_oid, now, issued>>
    /\ IF get_db = None THEN
          Reply(Unavailable("subscribe_newsletter", data)) /\ UNCHANGED threads
       ELSE IF ~Has(data, "email") THEN
          Reply(Raised("subscribe_newsletter", data, 0, KeyError("email")))
          /\ UNCHANGED threads
       ELSE IF ~server_up THEN
          Reply(Timeout("subscribe_newsletter", data, 1)) /\ UNCHANGED threads
       ELSE IF find_one("subscribers", "email", data.email) # 0 THEN
          /\ Reply(SetFields(Resp("subscribe_newsletter", data, 400, 1,
                                  [message |-> "Already subscribed"]),
                             [start |-> Len(hist)]))
          /\ UNCHANGED threads
       ELSE
          /\ threads' = [threads EXCEPT ![w] =
                 [pc |-> "subscribe_insert", req |-> data, start |-> Len(hist),
                  doc |-> [email |-> data.email, status |-> "active",
                           subscribedAt |-> now]]]
          /\ UNCHANGED hist

\* subscribe_newsletter from insert_one to the response
subscribe_newsletter_insert(w) ==
    /\ threads[w].pc = "subscribe_insert"
    /\ threads' = [threads EXCEPT ![w] = Idle]
    /\ UNCHANGED <<unique_idx, mongo_db, server_up, now, issued>>
    /\ LET t == threads[w] IN
       IF ~server_up THEN
          Reply(Timeout("subscribe_newsletter", t.req, 2)) /\ UNCHANGED <<db, next_oid>>
       ELSE IF DuplicateKey("subscribers", t.doc, {"email"}) THEN
          /\ Reply(SetFields(Raised("subscribe_newsletter", t.req, 2,
                                    "E11000 duplicate key error"),
                             [start |-> t.start]))
          /\ UNCHANGED <<db, next_oid>>
       ELSE
          /\ db' = insert_one("subscribers", t.doc)
          /\ next_oid' = next_oid + 1
          /\ Reply(SetFields(Resp("subscribe_newsletter", t.req, 201, 2,
                                  [message |-> "Subscribed successfully",
                                   subscriberId |-> StrOid(next_oid)]),
                             [start |-> t.start]))

\* find({'status': 'active'}) in natural order
ActiveSubscribers == SelectSeq(db.subscribers, LAMBDA d : Get(d, "status", "") = "active")

get_subscribers_body ==
    IF get_db = None THEN Keep(Unavailable("get_subscribers", <<>>))
    ELSE IF ~server_up THEN Keep(Timeout("get_subscribers", <<>>, 1))
    ELSE Keep(Resp("get_subscribers", <<>>, 200, 1,
                   [k \in 1..Len(ActiveSubscribers) |-> serialize_doc(ActiveSubscribers[k])]))

get_subscribers(tok) == Serve(Protected("get_subscribers", tok, get_subscribers_body))

(* ------------------------------- settings ----------------------------- *)
SettingsPayloads ==
    {[musicUrl |-> "hymn.mp3", musicEnabled |-> TRUE], [musicUrl |-> "psalm.mp3"], <<>>}

settings_data(data) ==
    [type |-> "site", musicUrl |-> Get(data, "musicUrl", ""),
     musicEnabled |-> Get(data, "musicEnabled", FALSE), updatedAt |-> now]

\* get_settings (public): the music fields of the first 'site' document, or defaults
get_settings ==
    Serve(IF get_db = None THEN Keep(Unavailable("get_settings", <<>>))
          ELSE IF ~server_up THEN Keep(Timeout("get_settings", <<>>, 1))
          ELSE LET i == find_one("settings", "type", "site") IN
               IF i = 0
               THEN Keep(Resp("get_settings", <<>>, 200, 1,
                              [musicUrl |-> "", musicEnabled |-> FALSE]))
               ELSE Keep(Resp("get_settings", <<>>, 200, 1,
                              [musicUrl |-> Get(db.settings[i], "musicUrl", ""),
                               musicEnabled |-> Get(db.settings[i], "musicEnabled", FALSE)])))

\* get_music_settings (public): the URL only, and only while music is enabled
get_music_settings ==
    Serve(IF get_db = None THEN Keep(Unavailable("get_music_settings", <<>>))
          ELSE IF ~server_up THEN Keep(Timeout("get_music_settings", <<>>, 1))
          ELSE LET i == find_one("settings", "type", "site") IN
               IF i = 0 \/ ~Get(db.settings[i], "musicEnabled", FALSE)
               THEN Keep(Resp("get_music_settings", <<>>, 200, 1, [musicUrl |-> ""]))
               ELSE Keep(Resp("get_music_settings", <<>>, 200, 1,
                              [musicUrl |-> Get(db.settings[i], "musicUrl", "")])))

SettingsUpdated(data, doc) ==
    Resp("update_settings", data, 200, 1,
         [message |-> "Settings updated successfully", settings |-> doc])

\* update_settings up to the store's matching of {'type': 'site'}.  The call is
\* update_one(filter, {'$set': settings_data}, upsert=True): when a document
\* matches, the store updates it atomically.  When none matches, the store goes on
\* to insert one, and without a unique index on the filter's field (the
\* application and seed_database.py create none on settings) that insert is not
\* isolated from the matching of a concurrent upsert.
update_settings_match(w, tok, data) ==
    /\ threads[w] = Idle
    /\ UNCHANGED <<unique_idx, mongo_db, server_up, next_oid, now, issued>>
    /\ IF jwt_required(tok) # 0 THEN
          Reply(Refused("update_settings", tok)) /\ UNCHANGED <<db, threads>>
       ELSE IF get_db = None THEN
          /\ Reply(SetFields(Unavailable("update_settings", data), Seen(tok)))
          /\ UNCHANGED <<db, threads>>
       ELSE IF ~server_up THEN
          /\ Reply(SetFields(Timeout("update_settings", data, 1), Seen(tok)))
          /\ UNCHANGED <<db, threads>>
       ELSE IF find_one("settings", "type", "site") # 0 THEN
          /\ db' = update_one("settings", find_one("settings", "type", "site"),
                              settings_data(data))
          /\ Reply(SetFields(SettingsUpdated(data, settings_data(data)), Seen(tok)))
          /\ UNCHANGED threads
       ELSE
          /\ threads' = [threads EXCEPT ![w] =
                 [pc |-> "settings_upsert", req |-> data, seen |-> Seen(tok),
                  doc |-> settings_data(data)]]
          /\ UNCHANGED <<db, hist>>

\* update_settings from the store's insert of the upsert to the response.  If a
\* 'site' document has appeared meanwhile the store may still insert, or may retry
\* the match and update that document.
update_settings_upsert(w) ==
    /\ threads[w].pc = "settings_upsert"
    /\ threads' = [threads EXCEPT ![w] = Idle]
    /\ UNCHANGED <<unique_idx, mongo_db, server_up, now, issued>>
    /\ LET t == threads[w] IN
       IF ~server_up THEN
          /\ Reply(SetFields(Timeout("update_settings", t.req, 1), t.seen))
          /\ UNCHANGED <<db, next_oid>>
       ELSE
          /\ Reply(SetFields(SettingsUpdated(t.req, t.doc), t.seen))
          /\ \/ db' = insert_one("settings", t.doc) /\ next_oid' = next_oid + 1
             \/ /\ find_one("settings", "type", "site") # 0
                /\ db' = update_one("settings", find_one("settings", "type", "site"), t.doc)
                /\ UNCHANGED next_oid

(* ----------------------------- admin stats ---------------------------- *)
StatKeys ==
    <<"totalEvents", "totalSermons", "totalMessages", "newMessages",
      "totalGalleryImages", "totalSubscribers">>

\* count_documents for the k-th entry of the stats dict
count_documents(k) ==
    CASE k = 1 -> Len(db.events)
      [] k = 2 -> Len(db.sermons)
      [] k = 3 -> Len(db.messages)
      [] k = 4 -> Cardinality(Matches("messages", "status", "new"))
      [] k = 5 -> Len(db.gallery)
      [] k = 6 -> Len(ActiveSubscribers)

\* get_admin_stats: the gate, then the first count_documents call
get_admin_stats_begin(w, tok) ==
    /\ threads[w] = Idle
    /\ UNCHANGED <<db, unique_idx, mongo_db, server_up, next_oid, now, issued>>
    /\ IF jwt_required(tok) # 0 THEN
          Reply(Refused("get_admin_stats", tok)) /\ UNCHANGED threads
       ELSE IF get_db = None THEN
          /\ Reply(SetFields(Unavailable("get_admin_stats", <<>>), Seen(tok)))
          /\ UNCHANGED threads
       ELSE IF ~server_up THEN
          /\ Reply(SetFields(Timeout("get_admin_stats", <<>>, 1), Seen(tok)))
          /\ UNCHANGED threads
       ELSE
          /\ threads' = [threads EXCEPT ![w] =
                 [pc |-> "stats_count", seen |-> Seen(tok),
                  counts |-> <<count_documents(1)>>]]
          /\ UNCHANGED hist

\* get_admin_stats: the next count_documents call; after the sixth, the response
get_admin_stats_count(w) ==
    /\ threads[w].pc = "stats_count"
    /\ UNCHANGED <<db, unique_idx, mongo_db, server_up, next_oid, now, issued>>
    /\ LET t == threads[w]
           k == Len(t.counts) + 1
           counts == Append(t.counts, count_documents(k))
       IN
       IF ~server_up THEN
          /\ Reply(SetFields(Timeout("get_admin_stats", <<>>, k), t.seen))
          /\ threads' = [threads EXCEPT ![w] = Idle]
       ELSE IF k < Len(StatKeys) THEN
          /\ threads' = [threads EXCEPT ![w] = [t EXCEPT !.counts = counts]]
          /\ UNCHANGED hist
       ELSE
          /\ threads' = [threads EXCEPT ![w] = Idle]
          /\ Reply(SetFields(
                   Resp("get_admin_stats", <<>>, 200, k,
                        [totalEvents |-> counts[1], totalSermons |-> counts[2],
                         totalMessages |-> counts[3], newMessages |-> counts[4],
                         totalGalleryImages |-> counts[5],
                         totalSubscribers |-> counts[6]]),
                   t.seen))

(* ------------------------------ specifications ------------------------ *)
\* The credentials of the seeded administrator
SeedLogin == [username |-> admin_user.username, password |-> "admin123"]

\* The id strings tried against a collection: its documents', one that matches
\* nothing, one that is no ObjectId
IdsFor(coll) ==
    {StrOid(db[coll][i]._id) : i \in 1..Len(db[coll])}
        \cup {StrOid(next_oid), "not-an-object-id"}

\* Registration and login under concurrent requests.
NextAuth ==
    \/ /\ Budget(MaxAuthRequests)
       /\ \E w \in Workers, data \in RegisterPayloads, salt \in Salts :
             register_admin_find(w, data, salt)
    \/ \E w \in Workers : register_admin_insert(w)
    \/ Budget(MaxAuthRequests) /\ \E data \in LoginPayloads : login_admin(data)

SpecAuth == Init /\ [][NextAuth]_vars

\* Every protected route, called with every kind of Authorization header, while
\* tokens are issued and weeks pass.
NextGate ==
    \/ Budget(MaxGateRequests) /\ login_admin(SeedLogin)
    \/ Tick(JWT_ACCESS_TOKEN_EXPIRES)
    \/ Budget(MaxGateRequests) /\ \E tok \in Presented : create_event(tok, FullEvent)
    \/ /\ Budget(MaxGateRequests)
       /\ \E tok \in Presented, id \in IdsFor("events") : update_event(tok, id, FullEvent)
    \/ /\ Budget(MaxGateRequests)
       /\ \E tok \in Presented, id \in IdsFor("events") : delete_event(tok, id)
    \/ Budget(MaxGateRequests) /\ \E tok \in Presented : create_sermon(tok, FullSermon)
    \/ /\ Budget(MaxGateRequests)
       /\ \E tok \in Presented, id \in IdsFor("sermons") : update_sermon(tok, id, FullSermon)
    \/ /\ Budget(MaxGateRequests)
       /\ \E tok \in Presented, id \in IdsFor("sermons") : delete_sermon(tok, id)
    \/ Budget(MaxGateRequests) /\ \E tok \in Presented : create_gallery_image(tok, FullImage)
    \/ /\ Budget(MaxGateRequests)
       /\ \E tok \in Presented, id \in IdsFor("gallery") : delete_gallery_image(tok, id)
    \/ Budget(MaxGateRequests) /\ \E tok \in Presented : get_messages(tok)
    \/ /\ Budget(MaxGateRequests)
       /\ \E tok \in Presented, id \in IdsFor("messages") :
             update_message_status(tok, id, [status |-> "read"])
    \/ /\ Budget(MaxGateRequests)
       /\ \E tok \in Presented, id \in IdsFor("messages") : delete_message(tok, id)
    \/ Budget(MaxGateRequests) /\ \E tok \in Presented : get_subscribers(tok)
    \/ /\ Budget(MaxGateRequests)
       /\ \E tok \in Presented, w \in Workers, data \in SettingsPayloads :
             update_settings_match(w, tok, data)
    \/ \E w \in Workers : update_settings_upsert(w)
    \/ /\ Budget(MaxGateRequests)
       /\ \E tok \in Presented, w \in Workers : get_admin_stats_begin(w, tok)
    \/ \E w \in Workers : get_admin_stats_count(w)

SpecGate == Init /\ [][NextGate]_vars

\* Tokens issued on different days and presented on every later day.
NextToken ==
    \/ /\ Budget(MaxTokenRequests)
       /\ \E data \in {SeedLogin, [SeedLogin EXCEPT !.password = "hunter2"]} :
             login_admin(data)
    \/ Budget(MaxTokenRequests) /\ \E tok \in Presented : get_subscribers(tok)
    \/ Tick(1)

SpecToken == Init /\ [][NextToken]_vars

\* Administrators creating events from complete and incomplete payloads.
NextEvents ==
    \/ Budget(MaxEventRequests) /\ login_admin(SeedLogin)
    \/ /\ Budget(MaxEventRequests)
       /\ \E tok \in issued \cup {NoAuthHeader}, data \in EventPayloads :
             create_event(tok, data)

SpecEvents == Init /\ [][NextEvents]_vars

\* Sermons created, listed, updated, deleted and fetched by concurrent requests.
NextSermons ==
    \/ Budget(MaxSermonRequests) /\ login_admin(SeedLogin)
    \/ Budget(MaxSermonRequests) /\ \E tok \in issued : create_sermon(tok, FullSermon)
    \/ /\ Budget(MaxSermonRequests)
       /\ \E tok \in issued, id \in IdsFor("sermons") : update_sermon(tok, id, FullSermon)
    \/ /\ Budget(MaxSermonRequests)
       /\ \E tok \in issued, id \in IdsFor("sermons") : delete_sermon(tok, id)
    \/ Budget(MaxSermonRequests) /\ get_sermons
    \/ /\ Budget(MaxSermonRequests)
       /\ \E w \in Workers, id \in IdsFor("sermons") : get_sermon_find(w, id)
    \/ \E w \in Workers : get_sermon_inc(w)

SpecSermons == Init /\ [][NextSermons]_vars

\* Newsletter subscriptions under concurrent requests.
NextSubscribe ==
    \/ /\ Budget(MaxSubscribeRequests)
       /\ \E w \in Workers, data \in SubscribePayloads : subscribe_newsletter_find(w, data)
    \/ \E w \in Workers : subscribe_newsletter_insert(w)

SpecSubscribe == Init /\ [][NextSubscribe]_vars

\* Subscriptions and the subscriber list on a store that holds a lapsed subscriber.
NextLapsed ==
    \/ /\ Budget(MaxLapsedRequests)
       /\ \E w \in Workers, data \in SubscribePayloads : subscribe_newsletter_find(w, data)
    \/ \E w \in Workers : subscribe_newsletter_insert(w)
    \/ /\ Budget(MaxLapsedRequests)
       /\ \E data \in {SeedLogin, [SeedLogin EXCEPT !.password = "hunter2"]} :
             login_admin(data)
    \/ /\ Budget(MaxLapsedRequests)
       /\ \E tok \in issued \cup {NoAuthHeader} : get_subscribers(tok)

SpecLapsed == InitLapsed /\ [][NextLapsed]_vars

\* Documents of the four deletable kinds created and deleted, by every id a client
\* can know.
NextDelete ==
    \/ Budget(MaxDeleteRequests) /\ login_admin(SeedLogin)
    \/ Budget(MaxDeleteRequests) /\ \E tok \in issued : create_event(tok, FullEvent)
    \/ Budget(MaxDeleteRequests) /\ \E tok \in issued : create_gallery_image(tok, FullImage)
    \/ Budget(MaxDeleteRequests) /\ submit_message(FullMessage)
    \/ Budget(MaxDeleteRequests) /\ \E tok \in issued, id \in IdParams : delete_event(tok, id)
    \/ Budget(MaxDeleteRequests) /\ \E tok \in issued, id \in IdParams : delete_sermon(tok, id)
    \/ /\ Budget(MaxDeleteRequests)
       /\ \E tok \in issued, id \in IdParams : delete_gallery_image(tok, id)
    \/ Budget(MaxDeleteRequests) /\ \E tok \in issued, id \in IdParams : delete_message(tok, id)

SpecDelete == Init /\ [][NextDelete]_vars

\* Single events and sermons fetched by every id string a client can send.
NextLookup ==
    \/ Budget(MaxLookupRequests) /\ login_admin(SeedLogin)
    \/ Budget(MaxLookupRequests) /\ \E tok \in issued : create_event(tok, FullEvent)
    \/ Budget(MaxLookupRequests) /\ \E id \in IdParams : get_event(id)
    \/ Budget(MaxLookupRequests) /\ \E w \in Workers, id \in IdParams : get_sermon_find(w, id)
    \/ \E w \in Workers : get_sermon_inc(w)

SpecLookup == Init /\ [][NextLookup]_vars

\* The site settings read and written by concurrent requests.
NextSettings ==
    \/ Budget(MaxSettingsRequests) /\ login_admin(SeedLogin)
    \/ Budget(MaxSettingsRequests) /\ get_settings
    \/ Budget(MaxSettingsRequests) /\ get_music_settings
    \/ /\ Budget(MaxSettingsRequests)
       /\ \E tok \in issued \cup {NoAuthHeader}, w \in Workers, data \in SettingsPayloads :
             update_settings_match(w, tok, data)
    \/ \E w \in Workers : update_settings_upsert(w)

SpecSettings == Init /\ [][NextSettings]_vars

\* Events of several categories and dates created in any order and listed with
\* every form of the category parameter.
ListPayloads ==
    {FullEvent,
     SetFields(FullEvent, [title |-> "Harvest Festival", date |-> "2024-10-31",
                            category |-> "past"]),
     SetFields(FullEvent, [title |-> "Prayer Breakfast", date |-> "2025-02-02",
                            category |-> "special"])}

NextList ==
    \/ Budget(MaxListRequests) /\ login_admin(SeedLogin)
    \/ Budget(MaxListRequests) /\ \E tok \in issued, data \in ListPayloads : create_event(tok, data)
    \/ Budget(MaxListRequests) /\ \E category \in CategoryParams : get_events(category)

SpecList == Init /\ [][NextList]_vars

\* Events and sermons created and, days later, updated from payloads with and
\* without the optional keys, by ids that match and ids that do not.
Complete(payloads, required) == {data \in payloads : Missing(data, required) = ""}

NextUpdate ==
    \/ Budget(MaxUpdateRequests) /\ login_admin(SeedLogin)
    \/ Tick(3)
    \/ /\ Budget(MaxUpdateRequests)
       /\ \E tok \in issued, data \in Complete(EventPayloads, EventRequired) :
             create_event(tok, data)
    \/ /\ Budget(MaxUpdateRequests)
       /\ \E tok \in issued, data \in Complete(SermonPayloads, SermonRequired) :
             create_sermon(tok, data)
    \/ /\ Budget(MaxUpdateRequests)
       /\ \E tok \in issued, id \in IdsFor("events"),
             data \in Complete(EventPayloads, EventRequired) \cup {Without(FullEvent, "title")} :
             update_event(tok, id, data)
    \/ /\ Budget(MaxUpdateRequests)
       /\ \E tok \in issued, id \in IdsFor("sermons"), data \in SermonPayloads :
             update_sermon(tok, id, data)

SpecUpdate == Init /\ [][NextUpdate]_vars

\* Messages submitted by visitors and listed, marked, deleted and counted by
\* administrators.
NextMessages ==
    \/ Budget(MaxMessageRequests) /\ login_admin(SeedLogin)
    \/ Budget(MaxMessageRequests) /\ \E data \in MessagePayloads : submit_message(data)
    \/ Budget(MaxMessageRequests) /\ \E tok \in issued \cup {NoAuthHeader} : get_messages(tok)
    \/ /\ Budget(MaxMessageRequests)
       /\ \E tok \in issued \cup {NoAuthHeader}, id \in IdsFor("messages"),
             data \in StatusPayloads : update_message_status(tok, id, data)
    \/ /\ Budget(MaxMessageRequests)
       /\ \E tok \in issued, id \in IdsFor("messages") : delete_message(tok, id)
    \/ /\ Budget(MaxMessageRequests)
       /\ \E tok \in issued, w \in Workers : get_admin_stats_begin(w, tok)
    \/ \E w \in Workers : get_admin_stats_count(w)

SpecMessages == Init /\ [][NextMessages]_vars

\* Public and protected requests, well formed, while the store comes and goes.
NextOutage ==
    \/ Outage
    \/ Budget(MaxOutageRequests) /\ health_check
    \/ Budget(MaxOutageRequests) /\ login_admin(SeedLogin)
    \/ Budget(MaxOutageRequests) /\ \E category \in {None, "past"} : get_events(category)
    \/ Budget(MaxOutageRequests) /\ get_sermons
    \/ Budget(MaxOutageRequests) /\ get_settings
    \/ Budget(MaxOutageRequests) /\ submit_message(FullMessage)
    \/ Budget(MaxOutageRequests) /\ \E tok \in issued : create_event(tok, FullEvent)
    \/ Budget(MaxOutageRequests) /\ \E tok \in issued : get_subscribers(tok)
    \/ /\ Budget(MaxOutageRequests)
       /\ \E w \in Workers : get_sermon_find(w, StrOid(sample_sermon._id))
    \/ \E w \in Workers : get_sermon_inc(w)
    \/ /\ Budget(MaxOutageRequests)
       /\ \E w \in Workers : subscribe_newsletter_find(w, [email |-> "john@example.com"])
    \/ \E w \in Workers : subscribe_newsletter_insert(w)

SpecOutage == InitOutage /\ [][NextOutage]_vars

\* The handlers that make more than one store call, served by two worker threads.
NextConcurrent ==
    \/ Budget(MaxConcurrentRequests) /\ login_admin(SeedLogin)
    \/ /\ Budget(MaxConcurrentRequests)
       /\ \E w \in Workers, data \in RegisterPayloads, salt \in Salts :
             register_admin_find(w, data, salt)
    \/ \E w \in Workers : register_admin_insert(w)
    \/ /\ Budget(MaxConcurrentRequests)
       /\ \E w \in Workers, data \in SubscribePayloads : subscribe_newsletter_find(w, data)
    \/ \E w \in Workers : subscribe_newsletter_insert(w)
    \/ /\ Budget(MaxConcurrentRequests)
       /\ \E w \in Workers, id \in IdsFor("sermons") : get_sermon_find(w, id)
    \/ \E w \in Workers : get_sermon_inc(w)
    \/ /\ Budget(MaxConcurrentRequests)
       /\ \E tok \in issued, w \in Workers : get_admin_stats_begin(w, tok)
    \/ \E w \in Workers : get_admin_stats_count(w)

SpecConcurrent == Init /\ [][NextConcurrent]_vars

\* Every writing route, called with good and bad tokens, payloads and ids, while
\* the store comes and goes.
Callers == issued \cup {NoAuthHeader}
SeedAdmin == [username |-> "admin", email |-> "admin@armorofgod.org", password |-> "admin123"]
NewAdmin == [username |-> "bob", email |-> "bob@example.com", password |-> "hunter2"]

NextErrors ==
    \/ Outage
    \/ /\ Budget(MaxErrorRequests)
       /\ \E data \in {SeedLogin, [SeedLogin EXCEPT !.password = "hunter2"]} :
             login_admin(data)
    \/ /\ Budget(MaxErrorRequests)
       /\ \E w \in Workers, data \in {SeedAdmin, NewAdmin, Without(NewAdmin, "email")} :
             register_admin_find(w, data, "s1")
    \/ \E w \in Workers : register_admin_insert(w)
    \/ /\ Budget(MaxErrorRequests)
       /\ \E tok \in Callers, data \in {FullEvent, Without(FullEvent, "title")} :
             create_event(tok, data)
    \/ /\ Budget(MaxErrorRequests)
       /\ \E tok \in Callers, id \in IdsFor("events"),
             data \in {FullEvent, Without(FullEvent, "title")} : update_event(tok, id, data)
    \/ Budget(MaxErrorRequests) /\ \E tok \in Callers, id \in IdsFor("events") : delete_event(tok, id)
    \/ Budget(MaxErrorRequests) /\ \E tok \in Callers : create_sermon(tok, FullSermon)
    \/ /\ Budget(MaxErrorRequests)
       /\ \E tok \in Callers, id \in IdsFor("sermons") : update_sermon(tok, id, FullSermon)
    \/ Budget(MaxErrorRequests) /\ \E tok \in Callers, id \in IdsFor("sermons") : delete_sermon(tok, id)
    \/ /\ Budget(MaxErrorRequests)
       /\ \E w \in Workers, id \in IdsFor("sermons") : get_sermon_find(w, id)
    \/ \E w \in Workers : get_sermon_inc(w)
    \/ /\ Budget(MaxErrorRequests)
       /\ \E tok \in Callers, data \in GalleryPayloads : create_gallery_image(tok, data)
    \/ /\ Budget(MaxErrorRequests)
       /\ \E tok \in Callers, id \in IdsFor("gallery") : delete_gallery_image(tok, id)
    \/ /\ Budget(MaxErrorRequests)
       /\ \E data \in {FullMessage, Without(FullMessage, "message")} : submit_message(data)
    \/ /\ Budget(MaxErrorRequests)
       /\ \E tok \in Callers, id \in IdsFor("messages"),
             data \in {[status |-> "read"], [note |-> "no status"]} :
             update_message_status(tok, id, data)
    \/ Budget(MaxErrorRequests) /\ \E tok \in Callers, id \in IdsFor("messages") : delete_message(tok, id)
    \/ /\ Budget(MaxErrorRequests)
       /\ \E w \in Workers, data \in {[email |-> "john@example.com"], [name |-> "no email"]} :
             subscribe_newsletter_find(w, data)
    \/ \E w \in Workers : subscribe_newsletter_insert(w)
    \/ /\ Budget(MaxErrorRequests)
       /\ \E tok \in Callers, w \in Workers :
             update_settings_match(w, tok, [musicUrl |-> "hymn.mp3", musicEnabled |-> TRUE])
    \/ \E w \in Workers : update_settings_upsert(w)

SpecErrors == InitOutage /\ [][NextErrors]_vars

(* ------------------------------- claims ------------------------------- *)
HistIdx == 1..Len(hist)
ProtectedOps ==
    {"create_event", "update_event", "delete_event", "create_sermon", "update_sermon",
     "delete_sermon", "create_gallery_image", "delete_gallery_image", "get_messages",
     "update_message_status", "delete_message", "get_subscribers", "update_settings",
     "get_admin_stats"}

Last(h) == h[Len(h)]
Answered == Len(hist') = Len(hist) + 1

C2_TokenLifetime ==
    /\ \A t \in issued :
          /\ t.exp = t.iat + JWT_ACCESS_TOKEN_EXPIRES
          /\ now < t.iat + JWT_ACCESS_TOKEN_EXPIRES => jwt_required(t) = 0
          /\ now > t.iat + JWT_ACCESS_TOKEN_EXPIRES => jwt_required(t) = 401
          /\ jwt_required(Extended(t)) # 0
    /\ \A j \in HistIdx : hist[j].op \in ProtectedOps =>
          /\ hist[j].tok \in issued =>
                /\ hist[j].at < hist[j].tok.iat + JWT_ACCESS_TOKEN_EXPIRES =>
                      hist[j].auth = "valid" /\ hist[j].status = 200
                /\ hist[j].at > hist[j].tok.iat + JWT_ACCESS_TOKEN_EXPIRES =>
                      hist[j].auth = "expired" /\ hist[j].status = 401
          /\ hist[j].tok \in {Extended(t) : t \in issued} => hist[j].status \in {401, 422}

\* One token was accepted on the last day before its expiry and refused on the
\* first day after it.
C2_Witness ==
    \E j, k \in HistIdx :
        /\ hist[j].op \in ProtectedOps /\ hist[k].op \in ProtectedOps
        /\ hist[j].tok \in issued /\ hist[k].tok = hist[j].tok
        /\ hist[j].at = hist[j].tok.exp - 1 /\ hist[j].status = 200
        /\ hist[k].at = hist[k].tok.exp + 1 /\ hist[k].status = 401

HasCredentials(req) == Has(req, "username") /\ Has(req, "password")
Registered(i) == hist[i].op = "register_admin" /\ hist[i].status = 201
LoggedIn(i) == hist[i].op = "login_admin" /\ hist[i].status = 200

\* The administrator that was created for (u, p) before response j, if any:
\* the seeded one, or one whose registration was answered 201 earlier
CreatedBefore(j, u, p) ==
    \/ unique_idx /\ u = admin_user.username /\ check_password_hash(admin_user.password, p)
    \/ \E i \in 1..(j - 1) :
          Registered(i) /\ hist[i].req.username = u /\ hist[i].req.password = p

\* C3 (as claimed): login answers 200 with a token exactly when an administrator
\* with that username and password has been created, and 401 without a token
\* otherwise; in particular login(u, p) succeeds after a successful register(u, p)
\* and login(u, p') is refused.  Only register adds administrators.
C3_LoginIffRegistered ==
    /\ \A j \in HistIdx :
          (hist[j].op = "login_admin" /\ HasCredentials(hist[j].req)) =>
              IF CreatedBefore(j, hist[j].req.username, hist[j].req.password)
              THEN hist[j].status = 200 /\ Has(hist[j].body, "token")
                   /\ hist[j].body.token \in issued
              ELSE hist[j].status = 401 /\ ~Has(hist[j].body, "token")
    /\ Cardinality(issued) <= Cardinality({j \in HistIdx : LoggedIn(j)})
    /\ Len(db.admins) = Cardinality({j \in HistIdx : Registered(j)}) + (IF unique_idx THEN 1 ELSE 0)

\* C4 (as claimed): no two administrator documents share a username or an email.
C4_UniqueAdmins ==
    \A i, j \in 1..Len(db.admins) :
        i # j => /\ db.admins[i].username # db.admins[j].username
                 /\ db.admins[i].email # db.admins[j].email

\* The strings a register or login response carries
BodyStrings(body) ==
    {body[f] : f \in DOMAIN body \ {"token", "admin"}}
        \cup (IF Has(body, "admin") THEN {body.admin[f] : f \in DOMAIN body.admin} ELSE {})
        \cup (IF Has(body, "token") THEN {body.token.sub} ELSE {})

\* C5: every stored password field is a hash that verifies the password submitted
\* at registration and is not that password, and no response of register or login
\* carries a submitted password or a stored hash.
C5_PasswordNeverStoredOrReturned ==
    /\ \A j \in HistIdx : Registered(j) =>
          \A i \in 1..Len(db.admins) :
              StrOid(db.admins[i]._id) = hist[j].body.adminId =>
                  /\ db.admins[i].password # hist[j].req.password
                  /\ check_password_hash(db.admins[i].password, hist[j].req.password)
    /\ \A i \in 1..Len(db.admins) : db.admins[i].password \notin Passwords
    /\ \A j \in HistIdx : hist[j].op \in {"register_admin", "login_admin"} =>
          /\ BodyStrings(hist[j].body) \cap Passwords = {}
          /\ BodyStrings(hist[j].body) \cap {db.admins[i].password : i \in 1..Len(db.admins)} = {}

\* A registration and a login of that administrator have both succeeded, and a
\* request carrying a password has been refused.
C5_Witness ==
    \E i, j, k \in HistIdx :
        /\ Registered(i) /\ LoggedIn(j) /\ i < j
        /\ hist[j].req.username = hist[i].req.username
        /\ hist[k].op \in {"register_admin", "login_admin"}
        /\ hist[k].status \in {400, 401, 500} /\ Has(hist[k].req, "password")

Created(j) == hist[j].op = "create_event" /\ hist[j].status = 201

\* C6 (as claimed): an authorized create_event whose payload lacks a required key is
\* answered 400 with a message naming the key, a complete payload is answered 201
\* with the id of a stored event, and the events stored are exactly those answered 201.
C6_MissingFieldIs400 ==
    /\ \A j \in HistIdx : (hist[j].op = "create_event" /\ hist[j].auth = "valid") =>
          IF Missing(hist[j].req, EventRequired) # ""
          THEN hist[j].status = 400
          ELSE /\ hist[j].status = 201
               /\ \E i \in 1..Len(db.events) : StrOid(db.events[i]._id) = hist[j].body.eventId
    /\ Len(db.events) = Cardinality({j \in HistIdx : Created(j)})

Fetch(i) == hist[i].op = "get_sermon" /\ hist[i].status = 200
\* Response i is of a request that was received after response i - 1
Alone(i) == hist[i].start = i - 1
\* The view count a sermon starts with: the seeded sermon's, or create_sermon's 0
Base(sid) == IF unique_idx /\ sid = StrOid(sample_sermon._id) THEN SeedViews ELSE 0
FetchesBefore(i, sid) == Cardinality({j \in 1..(i - 1) : Fetch(j) /\ hist[j].req = sid})
Stored(sid) == db.sermons[find_one("sermons", "_id", ParseOid(sid))]
Exists(sid) == find_one("sermons", "_id", ParseOid(sid)) # 0

\* C7: a fetch of a sermon that no other response interrupted returns the sermon's
\* initial view count plus the number of successful fetches of it so far, itself
\* included (v+1, ..., v+k), and that is the stored count when it answers.
C7_SequentialFetches ==
    \A i \in HistIdx : (Fetch(i) /\ Alone(i)) =>
        /\ hist[i].body.views = Base(hist[i].req) + FetchesBefore(i, hist[i].req) + 1
        /\ (i = Len(hist) /\ Exists(hist[i].req)) =>
               Stored(hist[i].req).views = hist[i].body.views

\* A sermon created by create_sermon has been fetched twice in a row, returning
\* 1 and then 2, and 2 is stored.
C7_Witness ==
    \E i \in HistIdx : 
        /\ i + 1 \in HistIdx /\ Fetch(i) /\ Fetch(i + 1) /\ Alone(i) /\ Alone(i + 1)
        /\ hist[i].req = hist[i + 1].req /\ Base(hist[i].req) = 0
        /\ hist[i].body.views = 1 /\ hist[i + 1].body.views = 2
        /\ Exists(hist[i].req) /\ Stored(hist[i].req).views = 2

\* C8 (as claimed): each successful fetch returns the count stored right after its
\* own increment, so no two successful fetches of one sermon return the same count.
C8_DistinctViewCounts ==
    /\ \A i, j \in HistIdx :
          (Fetch(i) /\ Fetch(j) /\ i # j /\ hist[i].req = hist[j].req) =>
              hist[i].body.views # hist[j].body.views
    /\ (Len(hist) > 0 /\ Fetch(Len(hist)) /\ Exists(Last(hist).req)) =>
          Last(hist).body.views = Stored(Last(hist).req).views

Fetches(sid) == Cardinality({j \in HistIdx : Fetch(j) /\ hist[j].req = sid})
SermonIds(d) == {d.sermons[i]._id : i \in 1..Len(d.sermons)}
ViewsOf(d, n) == d.sermons[CHOOSE i \in 1..Len(d.sermons) : d.sermons[i]._id = n].views

\* Each stored sermon's views is its initial value plus the number of fetches of it
\* that were answered 200
CountsFetches ==
    \A n \in SermonIds(db) : ViewsOf(db, n) = Base(StrOid(n)) + Fetches(StrOid(n))

\* C9: in every state a stored sermon's view count is its initial value plus the
\* number of fetches of it answered 200; a step that answers a fetch of it with 200
\* adds exactly one to it and every other step (update_sermon, get_sermons,
\* create_sermon, fetches of other sermons) leaves it as it is, so it never decreases.
C9_ViewsMonotone ==
    /\ []CountsFetches
    /\ [][\A n \in SermonIds(db) \cap SermonIds(db') :
             /\ ViewsOf(db', n) >= ViewsOf(db, n)
             /\ ViewsOf(db', n) = ViewsOf(db, n) +
                   (IF /\ Answered /\ Last(hist').op = "get_sermon"
                       /\ Last(hist').status = 200 /\ Last(hist').req = StrOid(n)
                    THEN 1 ELSE 0)]_vars

\* Two fetches of one sermon overlapped and returned the same count, the sermon was
\* updated by PUT, and its stored count is two above its initial value.
C9_Witness ==
    \E i, j, k \in HistIdx :
        /\ i < j /\ Fetch(i) /\ Fetch(j) /\ hist[i].req = hist[j].req
        /\ hist[i].body.views = hist[j].body.views
        /\ hist[k].op = "update_sermon" /\ hist[k].status = 200
        /\ hist[k].req.id = hist[i].req
        /\ Exists(hist[i].req) /\ Stored(hist[i].req).views = Base(hist[i].req) + 2

Subscribed(i) == hist[i].op = "subscribe_newsletter" /\ hist[i].status = 201

\* C10 (as claimed): a subscribe request for an email whose subscription had been
\* answered 201 before the request arrived is answered 400, and no two subscriber
\* documents hold the same email.
C10_OneSubscriberPerEmail ==
    /\ \A i, j \in HistIdx :
          (/\ Subscribed(i) /\ hist[j].op = "subscribe_newsletter"
           /\ Has(hist[j].req, "email") /\ hist[j].req = hist[i].req
           /\ i <= hist[j].start) => hist[j].status = 400
    /\ \A i, j \in 1..Len(db.subscribers) :
          i # j => db.subscribers[i].email # db.subscribers[j].email

SubscribeOf(j, email) ==
    /\ hist[j].op = "subscribe_newsletter" /\ Has(hist[j].req, "email")
    /\ hist[j].req.email = email

DeleteOps == {"delete_event", "delete_sermon", "delete_gallery_image", "delete_message"}
CollOf(op) ==
    CASE op \in {"delete_event", "update_event", "get_event"} -> "events"
      [] op \in {"delete_sermon", "update_sermon", "get_sermon"} -> "sermons"
      [] op = "delete_gallery_image" -> "gallery"
      [] op \in {"delete_message", "update_message_status"} -> "messages"
IdsIn(docs) == {docs[i]._id : i \in 1..Len(docs)}
Kept(docs, n) == SelectSeq(docs, LAMBDA d : d._id # n)

C13_BadIdIsNotFound ==
    /\ \A j \in HistIdx :
          (/\ hist[j].op \in {"get_event", "get_sermon"}
           /\ (ParseOid(hist[j].req) = 0 \/ hist[j].status # 200)) => hist[j].status = 404
    /\ CountsFetches

Put(i) == hist[i].op = "update_settings" /\ hist[i].status = 200
PutsBefore(j) == {i \in 1..(j - 1) : Put(i)}
Max(S) == CHOOSE x \in S : \A y \in S : y <= x
Defaults == [musicUrl |-> "", musicEnabled |-> FALSE]
\* The (u, e) of a PUT payload
Values(data) ==
    [musicUrl |-> Get(data, "musicUrl", ""), musicEnabled |-> Get(data, "musicEnabled", FALSE)]

\* C14 (as claimed): every GET /settings is answered 200; before any successful PUT
\* it returns the defaults and no settings document exists, and after one it returns
\* the values of the latest successful PUT.
C14_SettingsFollowLastPut ==
    /\ \A j \in HistIdx : hist[j].op = "get_settings" =>
          /\ hist[j].status = 200
          /\ hist[j].body = IF PutsBefore(j) = {} THEN Defaults
                            ELSE Values(hist[Max(PutsBefore(j))].req)
    /\ (PutsBefore(Len(hist) + 1) = {} /\ InFlight = 0) => db.settings = <<>>

\* C15 (as claimed): the settings collection never holds more than one document
\* tagged 'site'.
C15_SettingsSingleton == Cardinality(Matches("settings", "type", "site")) <= 1

Listed == Answered /\ Last(hist').op = "get_events"
InCategory(c) == SelectSeq(db.events, LAMBDA d : Has(d, "category") /\ d.category = c)

\* The response just sent is 200 and carries exactly the documents of `expected`,
\* each once, by descending date, and the store is as it was
ListIs(expected) ==
    LET body == Last(hist').body IN
    /\ Last(hist').status = 200
    /\ DOMAIN body = 1..Len(expected)
    /\ \A i \in 1..Len(expected) :
          Cardinality({k \in DOMAIN body : body[k] = serialize_doc(expected[i])}) = 1
    /\ \A k \in 1..(Len(expected) - 1) : Rank(body[k], "date") >= Rank(body[k + 1], "date")
    /\ db' = db

\* C16 (as claimed): GET /events?category=c returns exactly the events whose category
\* is c, whatever c is, and without the parameter every event; by descending date,
\* with status 200 and no change to the store.
C16_ListByCategory ==
    [][Listed => ListIs(IF Last(hist').req = None THEN db.events
                        ELSE InCategory(Last(hist').req))]_vars

\* C16 (amended): as claimed for a non-empty c; an empty category parameter is
\* treated as an absent one and returns every event.
C16_ListByNonEmptyCategory ==
    [][Listed => ListIs(IF Last(hist').req \in {None, ""} THEN db.events
                        ELSE InCategory(Last(hist').req))]_vars

\* Of two stored events exactly one, the one of category 'past', was returned by a
\* list filtered on that category.
C16_Witness ==
    \E j \in HistIdx :
        /\ hist[j].op = "get_events" /\ hist[j].req = "past" /\ hist[j].status = 200
        /\ Len(hist[j].body) = 1 /\ hist[j].body[1].category = "past"
        /\ Len(db.events) = 2

Updated == Answered /\ Last(hist').op \in {"update_event", "update_sermon"}
                    /\ Last(hist').auth = "valid"
RequiredOf(op) == IF op = "update_event" THEN EventRequired ELSE SermonRequired
\* The optional keys of a PUT payload and the values they take when omitted
DefaultsOf(op) ==
    IF op = "update_event" THEN [image |-> "", category |-> "upcoming"]
    ELSE [series |-> "", thumbnail |-> "", videoUrl |-> "", audioUrl |-> ""]
Range(seq) == {seq[i] : i \in 1..Len(seq)}
\* The payload-driven fields as the caller's payload sets them
Replaced(op, data) ==
    [f \in Range(RequiredOf(op)) \cup DOMAIN DefaultsOf(op) |->
        IF Has(data, f) THEN data[f] ELSE DefaultsOf(op)[f]]
At(docs, n) == docs[CHOOSE i \in 1..Len(docs) : docs[i]._id = n]

Patched(n) ==
    /\ Answered /\ Last(hist').op = "update_message_status" /\ Last(hist').status = 200
    /\ Last(hist').auth = "valid" /\ Last(hist').req.id = StrOid(n)

\* C18: a message enters the store only by a submit_message answered 201 and with
\* status 'new', whatever the payload carried; and the status of a stored message
\* differs after a step only if that step answered 200 to an authorized status
\* update of that message's id, which set it to the status sent.
C18_StatusOnlyByPatch ==
    [][\A n \in IdsIn(db'.messages) :
          IF n \in IdsIn(db.messages)
          THEN At(db'.messages, n).status # At(db.messages, n).status =>
                   Patched(n) /\ At(db'.messages, n).status = Last(hist').req.data.status
          ELSE /\ At(db'.messages, n).status = "new"
               /\ Answered /\ Last(hist').op = "submit_message" /\ Last(hist').status = 201
               /\ Last(hist').body.messageId = StrOid(n)]_vars

\* A message submitted with 'status': 'read' in its payload was stored and later
\* marked read by a status update, after an update without a token had been refused.
C18_Witness ==
    \E i, j, k \in HistIdx :
        /\ i < j /\ j < k
        /\ hist[i].op = "submit_message" /\ hist[i].status = 201
        /\ Get(hist[i].req, "status", "") = "read"
        /\ hist[j].op = "update_message_status" /\ hist[j].status = 401
        /\ hist[k].op = "update_message_status" /\ hist[k].status = 200
        /\ hist[k].req.id = hist[i].body.messageId
        /\ ParseOid(hist[k].req.id) \in IdsIn(db.messages)
        /\ At(db.messages, ParseOid(hist[k].req.id)).status = "read"

\* C19 (as claimed): a request that is let in and is answered while the store is
\* unavailable (no database handle, or a server that does not answer) is answered
\* 503, the health probe included.
C19_UnavailableIs503 ==
    [][(Answered /\ Last(hist').auth \in {"public", "valid"}
          /\ (get_db = None \/ ~server_up)) => Last(hist').status = 503]_vars

\* C20 (as claimed): while a request is between two of its store calls every step
\* taken is a step of that request, so no other request reads or writes the store
\* before it has answered; and, as when requests run one after another, no two
\* registrations of one username are both answered 201.
C20_RequestsAreAtomic ==
    /\ [][\A w \in Workers : threads[w].pc # "idle" => threads'[w] # threads[w]]_vars
    /\ [](\A i, j \in HistIdx :
            (i < j /\ Registered(i) /\ Registered(j)) =>
                hist[i].req.username # hist[j].req.username)

\* C21 (as claimed): every 200 response of get_admin_stats carries the counts of one
\* store state; in particular its newMessages is at most its totalMessages, the
\* messages with status 'new' being among the messages of that state.
C21_StatsAreASnapshot ==
    \A j \in HistIdx : (hist[j].op = "get_admin_stats" /\ hist[j].status = 200) =>
        hist[j].body.newMessages <= hist[j].body.totalMessages

ErrorStatus == {400, 401, 404, 422, 500, 503}

\* C22: a step that answers a request with an error status (400, 401, 404, 500, 503,
\* or the gate's 422) leaves every collection as it was, and every step that changes
\* a collection also answers its request, with 200 or 201; so a request that ends in
\* an error has written nothing, in its last step or in an earlier one.
C22_ErrorsLeaveStoreUnchanged ==
    [][/\ (Answered /\ Last(hist').status \in ErrorStatus) =>
              db' = db /\ next_oid' = next_oid
       /\ db' # db => Answered /\ Last(hist').status \in {200, 201}]_vars

\* A sermon fetch failed at its update_one (the server stopped after find_one), a
\* registration was refused as a duplicate and a protected request was refused by
\* the gate, in a store that holds documents.
C22_Witness ==
    \E i, j, k \in HistIdx :
        /\ hist[i].op = "get_sermon" /\ hist[i].status = 500 /\ hist[i].calls = 2
        /\ hist[j].op = "register_admin" /\ hist[j].status = 400
        /\ hist[k].op \in ProtectedOps /\ hist[k].status = 401
        /\ db.sermons # <<>> /\ db.sermons[1].views = SeedViews

=============================================================================
